---- MODULE Spec2Model ----
(***************************************************************************)
(* StracePerfDiff: the trace parsers (parseStrace, parsePerfTrace) and the *)
(* banded Needleman-Wunsch aligner (alignTraces) of services/traceParser,  *)
(* as state machines.                                                      *)
(*                                                                         *)
(* Text is a sequence of one-character strings.  A time or duration x of   *)
(* the source is the integer x * FP, so that the fractions the source      *)
(* computes with are exact.  Scores are integers in units of 1/Unit.       *)
(***************************************************************************)
EXTENDS Integers, Sequences, FiniteSets, TLC

\* ------------------------------------------------------------------ bounds

\* longest event sequence handed to alignTraces
MaxN == 2

\* most lines of a trace text
MaxLines == 3

\* most calls of parseTrace in one behaviour
MaxCalls == 3

\* most lines in the texts of all the calls of one behaviour together
MaxTotalLines == 3

\* most files the user selects in one behaviour of App
MaxReads == 3

\* ------------------------------------------------------- generic helpers

Min(a, b) == IF a < b THEN a ELSE b

Max(a, b) == IF a > b THEN a ELSE b

Abs(a) == IF a < 0 THEN -a ELSE a

RECURSIVE Gcd(_, _)
Gcd(a, b) == IF b = 0 THEN a ELSE Gcd(b, a % b)

Lcm(a, b) == (a * b) \div Gcd(a, b)

RECURSIVE LcmUpTo(_)
LcmUpTo(k) == IF k <= 1 THEN 1 ELSE Lcm(k, LcmUpTo(k - 1))

\* String.prototype.includes: t occurs in s as a contiguous substring
Includes(s, t) ==
    \E k \in 0..(Len(s) - Len(t)) : SubSeq(s, k + 1, k + Len(t)) = t

\* ------------------------------------------------------------ levenshtein

LevLongLimit == 40

LevLongPenalty == 5

\* <<0, 1, ..., n>>: new Array(n + 1).fill(0).map((_, i) => i); row[k] of the
\* source is element k + 1 here
RECURSIVE Iota(_)
Iota(n) == IF n < 0 THEN << >> ELSE Append(Iota(n - 1), n)

\* one pass of the inner loop (j = 1..alen) for row i of b; returns <<row, prev>>
\* (TLC passes arguments unevaluated: val is compared with itself so that each
\* cell is computed before the next one, as the loop does)
RECURSIVE LevInner(_, _, _, _, _, _)
LevInner(a, b, i, j, row, prev) ==
    IF j > Len(a) THEN <<row, prev>>
    ELSE LET val == IF b[i] = a[j]
                    THEN row[j]
                    ELSE Min(row[j] + 1, Min(prev + 1, row[j + 1] + 1))
         IN  IF val = val
             THEN LevInner(a, b, i, j + 1, [row EXCEPT ![j] = prev], val)
             ELSE <<row, prev>>

\* the outer loop (i = 1..blen); each row is computed before the next one
RECURSIVE LevOuter(_, _, _, _)
LevOuter(a, b, i, row) ==
    IF i > Len(b) THEN row
    ELSE LET r == LevInner(a, b, i, 1, row, i)
         IN  IF r = r
             THEN LevOuter(a, b, i + 1, [r[1] EXCEPT ![Len(a) + 1] = r[2]])
             ELSE row

levenshteinOneSided(a, b) ==
    IF a = b THEN 0
    ELSE IF Len(a) = 0 THEN Len(b)
    ELSE IF Len(b) = 0 THEN Len(a)
    ELSE IF Len(a) > LevLongLimit
         THEN Abs(Len(a) - Len(b)) + LevLongPenalty
    ELSE LevOuter(a, b, 1, Iota(Len(a)))[Len(a) + 1]

levenshtein(a, b) ==
    IF a = b THEN 0
    ELSE IF Len(a) = 0 THEN Len(b)
    ELSE IF Len(b) = 0 THEN Len(a)
    ELSE IF Len(a) > LevLongLimit \/ Len(b) > LevLongLimit
         THEN Abs(Len(a) - Len(b)) + LevLongPenalty
    ELSE LevOuter(a, b, 1, Iota(Len(a)))[Len(a) + 1]

\* ------------------------------------------------------------------- text

Q == "\""

t_read == <<"r", "e", "a", "d">>

t_readv == <<"r", "e", "a", "d", "v">>

t_openat == <<"o", "p", "e", "n", "a", "t">>

\* 3
a_fd == <<"3">>

\* 3, 9
a_fd_len == <<"3", ",", " ", "9">>

\* "/a/f"
a_path1 == <<Q, "/", "a", "/", "f", Q>>

\* "/b/f"
a_path2 == <<Q, "/", "b", "/", "f", Q>>

\* the argument texts of the modelled events
ArgTexts == {a_fd, a_fd_len, a_path1, a_path2}

SetMax(S) == CHOOSE x \in S : \A y \in S : y <= x

\* scores are carried as integers in units of 1/Unit: every quotient
\* getArgSimilarity forms over texts of ArgTexts is a whole number of units
Unit == 40 * LcmUpTo(SetMax({Len(t) : t \in ArgTexts}))

\* -------------------------------------------------------- getArgSimilarity

PrefixCheckLen == 30

\* index of the next '"' after position i, or 0
NextQuote(s, i) ==
    LET later == {k \in (i + 1)..Len(s) : s[k] = Q}
    IN  IF later = {} THEN 0 ELSE CHOOSE k \in later : \A l \in later : k <= l

\* a.match(/"([^"]*\/[^"]*)"/): the leftmost '"' whose text up to the next '"'
\* holds a '/'; << >> when there is none, else << group 1 >>
PathMatch(s) ==
    LET starts == {i \in 1..Len(s) :
                     /\ s[i] = Q
                     /\ NextQuote(s, i) # 0
                     /\ \E k \in (i + 1)..(NextQuote(s, i) - 1) : s[k] = "/"}
    IN  IF starts = {} THEN << >>
        ELSE LET i == CHOOSE x \in starts : \A y \in starts : x <= y
             IN  << SubSeq(s, i + 1, NextQuote(s, i) - 1) >>

\* index of the last '/' of p, or 0
LastSlash(p) ==
    LET at == {k \in 1..Len(p) : p[k] = "/"}
    IN  IF at = {} THEN 0 ELSE SetMax(at)

\* parts[parts.length - 1] of p.split('/')
FileOf(p) == SubSeq(p, LastSlash(p) + 1, Len(p))

\* parts.length > 1 ? parts[parts.length - 2] : ''
DirOf(p) ==
    IF LastSlash(p) = 0 THEN << >>
    ELSE FileOf(SubSeq(p, 1, LastSlash(p) - 1))

\* length of the common prefix of a and b within the first n characters
RECURSIVE CommonPrefix(_, _, _, _)
CommonPrefix(a, b, k, n) ==
    IF k > n \/ a[k] # b[k] THEN k - 1 ELSE CommonPrefix(a, b, k + 1, n)

\* similarity x Unit
getArgSimilarity(a, b) ==
    IF a = b THEN Unit
    ELSE IF Len(a) = 0 \/ Len(b) = 0 THEN 0
    ELSE IF PathMatch(a) # << >> /\ PathMatch(b) # << >>
    THEN LET pathA == PathMatch(a)[1]
             pathB == PathMatch(b)[1]
             fileA == FileOf(pathA)
             fileB == FileOf(pathB)
         IN  IF fileA = fileB /\ Len(fileA) > 0
             THEN IF DirOf(pathA) = DirOf(pathB) THEN Unit ELSE (9 * Unit) \div 10
             ELSE IF levenshtein(fileA, fileB) <= 2 /\ Len(fileA) > 3
                  THEN (7 * Unit) \div 10
                  ELSE (2 * Unit) \div 10
    ELSE LET minLen == Min(Len(a), Len(b))
             maxLen == Max(Len(a), Len(b))
             checkLen == Min(minLen, PrefixCheckLen)
             common == CommonPrefix(a, b, 1, checkLen)
         IN  IF maxLen = 0 THEN Unit
             ELSE (7 * common * Unit) \div (10 * Max(checkLen, 1))
                  + (3 * minLen * Unit) \div (10 * maxLen)

\* ---------------------------------------------------------- calculateScore

SCORE_MATCH == 10

SCORE_APPROX == 6

SCORE_MISMATCH == -10

SCORE_GAP == -4

MAX_ARG_BONUS == 5

ApproxDist == 3

calculateScoreNoIncludes(a, b) ==
    IF a.syscall = b.syscall
    THEN SCORE_MATCH * Unit + getArgSimilarity(a.args, b.args) * MAX_ARG_BONUS
    ELSE IF levenshtein(a.syscall, b.syscall) <= ApproxDist
         THEN SCORE_APPROX * Unit
              + (getArgSimilarity(a.args, b.args) * MAX_ARG_BONUS) \div 2
         ELSE SCORE_MISMATCH * Unit

\* pair score x Unit
calculateScore(a, b) ==
    IF a.syscall = b.syscall
    THEN SCORE_MATCH * Unit + getArgSimilarity(a.args, b.args) * MAX_ARG_BONUS
    ELSE IF \/ levenshtein(a.syscall, b.syscall) <= ApproxDist
            \/ Includes(a.syscall, b.syscall)
            \/ Includes(b.syscall, a.syscall)
         THEN SCORE_APPROX * Unit
              + (getArgSimilarity(a.args, b.args) * MAX_ARG_BONUS) \div 2
         ELSE SCORE_MISMATCH * Unit

\* ------------------------------------------------------------------ types

\* a JS number x is carried as the integer x * FP (six decimals, exact for
\* the microsecond stamps and durations of a trace)
FP == 10^6

\* an optional value: << >> (undefined) or << v >>
\* parseFloat of a text of dots only ("<.>"): NaN, a value outside the range
\* of the times and durations of the model
NaN == -2000000000

\* x + y, x * k and x / k of numbers
NumPlus(x, y) == IF x = NaN \/ y = NaN THEN NaN ELSE x + y

NumTimes(x, k) == IF x = NaN THEN NaN ELSE x * k

NumOver(x, k) == IF x = NaN THEN NaN ELSE x \div k

None == << >>

Some(v) == << v >>

\* TraceLine
TL(id, pid, ts, epoch, syscall, args, result, duration, userDiff, raw) ==
    [id |-> id, pid |-> pid, timestamp |-> ts, timestampEpoch |-> epoch,
     syscall |-> syscall, args |-> args, result |-> result,
     duration |-> duration, userDiff |-> userDiff, raw |-> raw]

\* DiffRow (a, b, timeDiff, userDiffDelta are optional)
Row(type, a, b, timeDiff, userDiffDelta) ==
    [type |-> type, a |-> a, b |-> b, timeDiff |-> timeDiff,
     userDiffDelta |-> userDiffDelta]

\* a number or -Infinity
NegInf == [inf |-> TRUE, v |-> 0]

Fin(v) == [inf |-> FALSE, v |-> v]

\* x + c for a finite c
Plus(x, c) == IF x.inf THEN NegInf ELSE Fin(x.v + c)

\* x > y
Gt(x, y) == ~x.inf /\ (y.inf \/ x.v > y.v)

\* x >= y
Ge(x, y) == y.inf \/ (~x.inf /\ x.v >= y.v)

\* ------------------------------------------------- events given to alignTraces

\* a timestamp text HH:MM:SS.ffffff is carried as << HH, MM, SS, ffffff >>
ev_read ==
    TL(0, 0, <<10, 0, 0, 0>>, 0, t_read, a_fd, <<"3">>, 10, 0, None)

ev_read2 ==
    TL(1, 0, <<10, 0, 0, 100>>, 100 * 1000, t_read, a_fd_len, <<"9">>, 20, 5, None)

ev_readv ==
    TL(2, 1, <<10, 0, 0, 200>>, 200 * 1000, t_readv, a_fd, <<"3">>, 10, 7, None)

ev_openat ==
    TL(3, 0, <<10, 0, 0, 300>>, 300 * 1000, t_openat, a_path1, <<"4">>, 30, 0, None)

AlignEvents == {ev_read, ev_read2, ev_readv, ev_openat}

\* all sequences over S of length at most n
SeqsUpTo(S, n) == UNION {[1..k -> S] : k \in 0..n}

\* ------------------------------------------------------------- alignTraces

BandMin == 200

BandSlack == 100

DIR_DIAG == 1

DIR_UP == 2

DIR_LEFT == 3

\* const K = Math.max(200, lengthDiff + 100)
BandK(n, m) == Max(BandMin, Abs(n - m) + BandSlack)

\* the columns j of row i the fill loop visits.  With n = 0 the center
\* Math.floor(i * (m / n)) is NaN, startJ and endJ are NaN and the loop
\* body never runs.  (For n > 0 the quotient is taken exactly; a rounding of
\* i * (m / n) below an integer moves the center by one column at most.)
BandCols(i, n, m) ==
    IF n = 0 THEN {}
    ELSE LET center == (i * m) \div n
             startJ == Max(0, center - BandK(n, m))
             endJ == Min(m, center + BandK(n, m))
         IN  startJ..endJ

\* getScore(i, j, scores)
getScore(i, j, scores) ==
    IF i = 0 /\ j = 0 THEN Fin(0)
    ELSE IF i = 0 THEN Fin(j * SCORE_GAP * Unit)
    ELSE IF j = 0 THEN Fin(i * SCORE_GAP * Unit)
    ELSE IF <<i, j>> \in DOMAIN scores THEN Fin(scores[<<i, j>>])
    ELSE NegInf

\* ChooseMax without the comparison against the Up candidate
ChooseMaxNoUp(scoreLeft, scoreUp, scoreDiag) ==
    IF Ge(scoreDiag, scoreLeft) THEN <<scoreDiag, DIR_DIAG>>
                                ELSE <<scoreLeft, DIR_LEFT>>

\* ChooseMax with the diagonal taken whenever it is finite
ChooseMaxDiagFirst(scoreLeft, scoreUp, scoreDiag) ==
    IF ~scoreDiag.inf THEN <<scoreDiag, DIR_DIAG>>
    ELSE IF Gt(scoreUp, scoreLeft) THEN <<scoreUp, DIR_UP>>
    ELSE <<scoreLeft, DIR_LEFT>>

\* ChooseMax with Up taken on a tie with Left
ChooseMaxUpOnTie(scoreLeft, scoreUp, scoreDiag) ==
    LET s1 == IF Ge(scoreUp, scoreLeft) THEN <<scoreUp, DIR_UP>>
                                        ELSE <<scoreLeft, DIR_LEFT>>
    IN  IF Ge(scoreDiag, s1[1]) THEN <<scoreDiag, DIR_DIAG>> ELSE s1

\* "Choose max": << maxScore, dir >> of the three candidates
ChooseMax(scoreLeft, scoreUp, scoreDiag) ==
    LET s1 == IF Gt(scoreUp, scoreLeft) THEN <<scoreUp, DIR_UP>>
                                        ELSE <<scoreLeft, DIR_LEFT>>
    IN  IF Ge(scoreDiag, s1[1]) THEN <<scoreDiag, DIR_DIAG>> ELSE s1

\* FillCell without directions.set
FillCellNoDirection(i, j, listA, listB, tab) ==
    IF i = 0 /\ j = 0
    THEN [tab EXCEPT !.scores = (<<0, 0>> :> 0) @@ tab.scores]
    ELSE LET scoreLeft == IF j > 0
                          THEN Plus(getScore(i, j - 1, tab.scores), SCORE_GAP * Unit)
                          ELSE NegInf
             scoreUp == IF i > 0
                        THEN Plus(getScore(i - 1, j, tab.scores), SCORE_GAP * Unit)
                        ELSE NegInf
             scoreDiag == IF i > 0 /\ j > 0
                          THEN IF getScore(i - 1, j - 1, tab.scores).inf THEN NegInf
                               ELSE Plus(getScore(i - 1, j - 1, tab.scores),
                                         calculateScore(listA[i], listB[j]))
                          ELSE NegInf
             best == ChooseMax(scoreLeft, scoreUp, scoreDiag)
         IN  IF ~best[1].inf
             THEN [tab EXCEPT !.scores = (<<i, j>> :> best[1].v) @@ tab.scores]
             ELSE tab

\* the body of the inner loop for cell (i, j): the tables after it
FillCell(i, j, listA, listB, tab) ==
    IF i = 0 /\ j = 0
    THEN [tab EXCEPT !.scores = (<<0, 0>> :> 0) @@ tab.scores]
    ELSE LET scoreLeft == IF j > 0
                          THEN Plus(getScore(i, j - 1, tab.scores), SCORE_GAP * Unit)
                          ELSE NegInf
             scoreUp == IF i > 0
                        THEN Plus(getScore(i - 1, j, tab.scores), SCORE_GAP * Unit)
                        ELSE NegInf
             scoreDiag == IF i > 0 /\ j > 0
                          THEN IF getScore(i - 1, j - 1, tab.scores).inf THEN NegInf
                               ELSE Plus(getScore(i - 1, j - 1, tab.scores),
                                         calculateScore(listA[i], listB[j]))
                          ELSE NegInf
             best == ChooseMax(scoreLeft, scoreUp, scoreDiag)
         IN  IF ~best[1].inf
             THEN [scores |-> (<<i, j>> :> best[1].v) @@ tab.scores,
                   directions |-> (<<i, j>> :> best[2]) @@ tab.directions]
             ELSE tab

\* the cells of row ci over the columns cols, in ascending order
RECURSIVE RowCells(_, _)
RowCells(ci, cols) ==
    IF cols = {} THEN << >>
    ELSE LET c == CHOOSE x \in cols : \A y \in cols : x <= y
         IN  << <<ci, c>> >> \o RowCells(ci, cols \ {c})

\* the cells (i, j) in the order the two nested loops visit them, from row ci on
RECURSIVE LoopCells(_, _, _)
LoopCells(ci, n, m) ==
    IF ci > n THEN << >>
    ELSE RowCells(ci, BandCols(ci, n, m)) \o LoopCells(ci + 1, n, m)

EmptyMap == << >>

\* listA, listB: the two event lists; scores, directions: the sparse tables;
\* cells, fk: the cells of the fill loops and the position in them;
\* i, j, rows: the traceback; pc: the position in alignTraces
VARIABLES listA, listB, scores, directions, cells, fk, i, j, rows, pc

alignVars == <<listA, listB, scores, directions, cells, fk, i, j, rows, pc>>

\* mode: the parser parseTrace runs; index: the number of lines consumed so far;
\* rawLines: the lines of the text the callback has run on, in order;
\* lines .. hasSetStartTime: the parser's locals; stats, pids: the rest of the
\* returned ParsedTrace; ppc: the position in the parser
VARIABLES mode, index, rawLines, lines, syscallCounts, uniquePids, pidLastEndTime,
          pendingCalls, globalStartTime, hasSetStartTime, stats, pids, ppc

parseLocals == <<lines, syscallCounts, uniquePids, pidLastEndTime, pendingCalls,
                 globalStartTime, hasSetStartTime>>

parseVars == <<mode, index, rawLines, lines, syscallCounts, uniquePids, pidLastEndTime,
               pendingCalls, globalStartTime, hasSetStartTime, stats, pids, ppc>>

\* returned: the calls of parseTrace that have returned, each with its mode,
\* its text and the ParsedTrace it returned
VARIABLES returned

\* levA, levB: the arguments of a call of levenshtein; levOut: its result;
\* levPc: the position of the caller
VARIABLES levA, levB, levOut, levPc

levVars == <<levA, levB, levOut, levPc>>

\* scoreA, scoreB: the arguments of a call of calculateScore; scoreOut: its
\* result; simAB, simBA: the results of getArgSimilarity on the argument texts
\* in both orders; scorePc: the position of the caller
VARIABLES scoreA, scoreB, scoreOut, simAB, simBA, scorePc

scoreVars == <<scoreA, scoreB, scoreOut, simAB, simBA, scorePc>>

\* bandN, bandM: the lengths of the lists of a call of alignTraces; bandI,
\* bandJ: a cell of its fill loops; bandPi, bandPj: the predecessor the cell
\* reads with getScore; bandOut: the value read; bandPc: the position
VARIABLES bandN, bandM, bandI, bandJ, bandPi, bandPj, bandOut, bandPc

bandVars == <<bandN, bandM, bandI, bandJ, bandPi, bandPj, bandOut, bandPc>>

\* the state of App: traceA, traceB (0 for null), diffResult, isProcessing;
\* timers: the callbacks of setTimeout that have not run, in the order they
\* were scheduled, each with the traces it closed over; readers: the
\* FileReader reads in flight; started: the number of files selected so far
VARIABLES traceA, traceB, diffResult, isProcessing, timers, readers, started

appVars == <<traceA, traceB, diffResult, isProcessing, timers, readers, started>>

otherVars == <<returned, levVars, scoreVars, bandVars, appVars>>

vars == <<alignVars, parseVars, otherVars>>

\* no call of parseTrace has returned, no call of levenshtein is made
InitOther ==
    /\ returned = << >>
    /\ levA = << >>
    /\ levB = << >>
    /\ levOut = 0
    /\ levPc = "idle"
    /\ scoreA = << >>
    /\ scoreB = << >>
    /\ scoreOut = 0
    /\ simAB = 0
    /\ simBA = 0
    /\ scorePc = "idle"
    /\ bandN = 0
    /\ bandM = 0
    /\ bandI = 0
    /\ bandJ = 0
    /\ bandPi = 0
    /\ bandPj = 0
    /\ bandOut = Fin(0)
    /\ bandPc = "idle"
    /\ traceA = 0
    /\ traceB = 0
    /\ diffResult = << >>
    /\ isProcessing = FALSE
    /\ timers = << >>
    /\ readers = {}
    /\ started = 0

InitAlign ==
    /\ listA = << >>
    /\ listB = << >>
    /\ scores = EmptyMap
    /\ directions = EmptyMap
    /\ cells = << >>
    /\ fk = 1
    /\ i = 0
    /\ j = 0
    /\ rows = << >>
    /\ pc = "idle"

\* alignTraces(traceA, traceB): entry, up to the fill loops
AlignStart ==
    /\ pc = "idle"
    /\ \E A \in SeqsUpTo(AlignEvents, MaxN), B \in SeqsUpTo(AlignEvents, MaxN) :
         /\ listA' = A
         /\ listB' = B
         /\ cells' = LoopCells(0, Len(A), Len(B))
    /\ fk' = 1
    /\ pc' = "fill"
    /\ UNCHANGED <<scores, directions, i, j, rows>>
    /\ UNCHANGED <<parseVars, otherVars>>

\* one iteration of the inner fill loop
FillStep ==
    /\ pc = "fill"
    /\ fk <= Len(cells)
    /\ LET tab == FillCell(cells[fk][1], cells[fk][2], listA, listB,
                           [scores |-> scores, directions |-> directions])
       IN  /\ scores' = tab.scores
           /\ directions' = tab.directions
    /\ fk' = fk + 1
    /\ UNCHANGED <<listA, listB, cells, i, j, rows, pc>>
    /\ UNCHANGED <<parseVars, otherVars>>

\* the fill loops are over: let i = n; let j = m
FillDone ==
    /\ pc = "fill"
    /\ fk > Len(cells)
    /\ i' = Len(listA)
    /\ j' = Len(listB)
    /\ rows' = << >>
    /\ pc' = "trace"
    /\ UNCHANGED <<listA, listB, scores, directions, cells, fk>>
    /\ UNCHANGED <<parseVars, otherVars>>

\* ForcedMove without the last branch (else if (j > 0))
ForcedMoveNoInsert(ci, cj, A, B) ==
    IF ci > 0 /\ cj > 0
    THEN <<1, 1, << Row("mismatch", Some(A[ci]), Some(B[cj]), None, None) >> >>
    ELSE IF ci > 0
    THEN <<1, 0, << Row("delete", Some(A[ci]), None, None, None) >> >>
    ELSE <<0, 0, << >> >>

\* the move at a cell with no recorded direction: << di, dj, rows to unshift >>
ForcedMove(ci, cj, A, B) ==
    IF ci > 0 /\ cj > 0
    THEN <<1, 1, << Row("mismatch", Some(A[ci]), Some(B[cj]), None, None) >> >>
    ELSE IF ci > 0
    THEN <<1, 0, << Row("delete", Some(A[ci]), None, None, None) >> >>
    ELSE IF cj > 0
    THEN <<0, 1, << Row("insert", None, Some(B[cj]), None, None) >> >>
    ELSE <<0, 0, << >> >>

\* DiagRow with timeDiff taken against b.userDiff
DiagRowSlip(a, b) ==
    IF calculateScore(a, b) > 0
    THEN Row("match", Some(a), Some(b),
             Some(a.duration - b.userDiff), Some(a.userDiff - b.userDiff))
    ELSE Row("mismatch", Some(a), Some(b), None, None)

\* DiagRow with the deltas taken as B - A
DiagRowReversed(a, b) ==
    IF calculateScore(a, b) > 0
    THEN Row("match", Some(a), Some(b),
             Some(b.duration - a.duration), Some(b.userDiff - a.userDiff))
    ELSE Row("mismatch", Some(a), Some(b), None, None)

\* the row a diagonal step emits for the pair (a, b)
DiagRow(a, b) ==
    IF calculateScore(a, b) > 0
    THEN Row("match", Some(a), Some(b),
             Some(a.duration - b.duration), Some(a.userDiff - b.userDiff))
    ELSE Row("mismatch", Some(a), Some(b), None, None)

\* the move for a recorded direction
DirMove(dir, ci, cj, A, B) ==
    IF dir = DIR_DIAG THEN <<1, 1, << DiagRow(A[ci], B[cj]) >> >>
    ELSE IF dir = DIR_UP
    THEN <<1, 0, << Row("delete", Some(A[ci]), None, None, None) >> >>
    ELSE IF dir = DIR_LEFT
    THEN <<0, 1, << Row("insert", None, Some(B[cj]), None, None) >> >>
    ELSE <<0, 0, << >> >>

\* rows.push(r) in place of rows.unshift(r)
UnshiftAsPush(rs, r) == rs \o r

\* rows.unshift(r)
Unshift(rs, r) == r \o rs

\* the move of the iteration at cell (i, j): << di, dj, rows to unshift >>
TraceMove ==
    IF <<i, j>> \in DOMAIN directions
    THEN DirMove(directions[<<i, j>>], i, j, listA, listB)
    ELSE ForcedMove(i, j, listA, listB)

\* one iteration of while (i > 0 || j > 0)
TraceStep ==
    /\ pc = "trace"
    /\ i > 0 \/ j > 0
    /\ i' = i - TraceMove[1]
    /\ j' = j - TraceMove[2]
    /\ rows' = Unshift(rows, TraceMove[3])
    /\ UNCHANGED <<listA, listB, scores, directions, cells, fk, pc>>
    /\ UNCHANGED <<parseVars, otherVars>>

\* the loop condition fails: return rows
AlignReturn ==
    /\ pc = "trace"
    /\ ~(i > 0 \/ j > 0)
    /\ pc' = "done"
    /\ UNCHANGED <<listA, listB, scores, directions, cells, fk, i, j, rows>>
    /\ UNCHANGED <<parseVars, otherVars>>

NextAlign == AlignStart \/ FillStep \/ FillDone \/ TraceStep \/ AlignReturn

\* ------------------------------------------------------------ trace texts

\* the process ids of the lines of a trace (0: a line without "[pid N]")
Pids == {0, 7}

\* HH:MM:SS.ffffff stamps of strace lines
Stamps == {<<0, 0, 0, 0>>, <<0, 0, 1, 0>>}

\* <duration> of a completed call, in seconds
d_half == FP \div 2

\* the text stored from "name(<args> <unfinished ...>": 3,
a_start == <<"3", ",">>

\* the text of a resumed line between "resumed>" and the closing ")":  9
a_extra == <<" ", "9">>

\* "name( <unfinished ...>" stores the empty text
a_none == << >>

\* "<... name resumed> ) = ..." has one blank before the ")"
a_blank == <<" ">>

\* a line of a trace text, by the grammar it matches:
\*   blank       nothing but white space
\*   nots        no timestamp after the optional [pid N]
\*   other       a timestamp, then text of no call grammar (signal, exit)
\*   unfinished  name(args <unfinished ...>
\*   resumed     <... name resumed> args) = result <duration>
\*   resumedBad  <... name resumed> and a rest without ") = result <duration>"
\*   standard    name(args) = result <duration>
Line(kind, pid, ts, name, args, result, dur) ==
    [kind |-> kind, pid |-> pid, ts |-> ts, name |-> name, args |-> args,
     result |-> result, dur |-> dur]

NoStamp == <<0, 0, 0, 0>>

\* the stamp of the resumed lines and of the lines of no call grammar
LateStamp == <<0, 0, 1, 0>>

\* <name, args> of the unfinished lines
StartTexts == {<<t_read, a_start>>, <<t_read, a_none>>, <<t_openat, a_start>>}

\* <name, args> of the resumed lines
RestTexts == {<<t_read, a_extra>>, <<t_read, a_blank>>, <<t_openat, a_extra>>}

BlankLines == {Line("blank", 0, NoStamp, << >>, << >>, << >>, 0)}

NoStampLines == {Line("nots", 0, NoStamp, << >>, << >>, << >>, 0)}

OtherLines == {Line("other", p, LateStamp, << >>, << >>, << >>, 0) : p \in Pids}

UnfinishedLines ==
    {Line("unfinished", p, t, t_read, a_start, << >>, 0) : p \in Pids, t \in Stamps}
    \cup {Line("unfinished", 0, <<0, 0, 0, 0>>, na[1], na[2], << >>, 0) : na \in StartTexts}

ResumedLines ==
    {Line("resumed", p, LateStamp, t_read, a_extra, <<"4">>, d_half) : p \in Pids}
    \cup {Line("resumed", 0, LateStamp, na[1], na[2], <<"4">>, d_half) : na \in RestTexts}

ResumedBadLines == {Line("resumedBad", 0, LateStamp, t_read, << >>, << >>, 0)}

StandardLines ==
    {Line("standard", p, t, t_read, a_fd, <<"0">>, d_half) :
        p \in Pids, t \in Stamps}
    \cup {Line("standard", 0, LateStamp, t_read, a_fd, <<"0">>, NaN)}

\* the lines a strace text is made of
StraceLines ==
    BlankLines \cup NoStampLines \cup OtherLines \cup UnfinishedLines
    \cup ResumedLines \cup ResumedBadLines \cup StandardLines

\* "seconds.fraction" stamps of perf lines, as <<seconds, millionths>>
PerfStamps == {<<1000, 0>>, <<1002, 500000>>}

\* "( 1.000 ms)", the duration of a perf line, in milliseconds
d_ms == FP

\* a line of a perf text, by the grammar it matches:
\*   blank    nothing but white space
\*   nomatch  text that perfRegex does not match
\*   call     stamp ( duration ms): comm/pid name(args) = result
PerfCallLines ==
    {Line("call", p, t, n, a_fd, <<"0">>, d_ms) :
        p \in Pids, t \in PerfStamps, n \in {t_read, t_openat}}
    \cup {Line("call", 0, <<1000, 0>>, t_read, a_fd, <<"0">>, NaN)}

\* the lines a perf text is made of
PerfLines ==
    BlankLines \cup {Line("nomatch", 0, NoStamp, << >>, << >>, << >>, 0)}
    \cup PerfCallLines

\* ------------------------------------------------------------- parseStrace

\* parseTimestamp: milliseconds since midnight
parseTimestamp(ts) ==
    (ts[1] * 3600 + ts[2] * 60) * 1000 * FP + (ts[3] * FP + ts[4]) * 1000

IsSpace(c) == c \in {" ", "\t"}

\* String.prototype.trim
RECURSIVE Trim(_)
Trim(t) ==
    IF t = << >> THEN t
    ELSE IF IsSpace(Head(t)) THEN Trim(Tail(t))
    ELSE IF IsSpace(t[Len(t)]) THEN Trim(SubSeq(t, 1, Len(t) - 1))
    ELSE t

\* map.get(key) || dflt
GetOr(map, key, dflt) ==
    IF key \in DOMAIN map /\ map[key] \notin {0, NaN} THEN map[key] ELSE dflt

\* map.set(key, v)
MapSet(map, key, v) == (key :> v) @@ map

\* map.delete(key)
MapDelete(map, key) == [k \in DOMAIN map \ {key} |-> map[k]]

\* as CountCall, with the duration of a further call of a name left out
CountCallFirstOnly(counts, name, duration) ==
    IF name \in DOMAIN counts
    THEN MapSet(counts, name,
                [count |-> counts[name].count + 1,
                 totalDuration |-> counts[name].totalDuration])
    ELSE MapSet(counts, name, [count |-> 1, totalDuration |-> duration])

\* the per-name statistics after one more call of name
CountCall(counts, name, duration) ==
    IF name \in DOMAIN counts
    THEN MapSet(counts, name,
                [count |-> counts[name].count + 1,
                 totalDuration |-> NumPlus(counts[name].totalDuration, duration)])
    ELSE MapSet(counts, name, [count |-> 1, totalDuration |-> duration])

\* the locals of a parser as one record
ParserState(ls, counts, upids, lastEnd, pending, gst, hasSet) ==
    [lines |-> ls, syscallCounts |-> counts, uniquePids |-> upids,
     pidLastEndTime |-> lastEnd, pendingCalls |-> pending,
     globalStartTime |-> gst, hasSetStartTime |-> hasSet]

\* as CompleteResumed, with the event starting at the resumed line
CompleteResumedAtResume(st, ln, idx, currentEpoch) ==
    LET pending == st.pendingCalls[ln.pid]
        line == TL(idx, ln.pid, ln.ts, currentEpoch - st.globalStartTime,
                   ln.name, Trim(pending.startArgs \o ln.args), ln.result,
                   ln.dur, 0, <<pending.rawStart, ln>>)
    IN  [st EXCEPT !.pidLastEndTime = MapSet(@, ln.pid, currentEpoch),
                   !.lines = Append(@, line),
                   !.pendingCalls = MapDelete(@, ln.pid),
                   !.syscallCounts = CountCall(@, ln.name, ln.dur)]

\* as CompleteResumed, with the argument text of the resumed line alone
CompleteResumedRestOnly(st, ln, idx, currentEpoch) ==
    LET pending == st.pendingCalls[ln.pid]
        prevEnd == GetOr(st.pidLastEndTime, ln.pid, pending.startEpoch)
        userDiff == Max(0, pending.startEpoch - prevEnd)
        line == TL(idx, ln.pid, pending.timestampStr,
                   pending.startEpoch - st.globalStartTime, ln.name,
                   Trim(ln.args), ln.result, ln.dur, userDiff \div 1000,
                   <<pending.rawStart, ln>>)
    IN  [st EXCEPT !.pidLastEndTime = MapSet(@, ln.pid, currentEpoch),
                   !.lines = Append(@, line),
                   !.pendingCalls = MapDelete(@, ln.pid),
                   !.syscallCounts = CountCall(@, ln.name, ln.dur)]

\* Case A, a resumed line whose pending call matches and whose rest parses
CompleteResumed(st, ln, idx, currentEpoch) ==
    LET pending == st.pendingCalls[ln.pid]
        fullArgs == Trim(pending.startArgs \o ln.args)
        prevEnd == GetOr(st.pidLastEndTime, ln.pid, pending.startEpoch)
        userDiff == Max(0, pending.startEpoch - prevEnd)
        line == TL(idx, ln.pid, pending.timestampStr,
                   pending.startEpoch - st.globalStartTime, ln.name, fullArgs,
                   ln.result, ln.dur, userDiff \div 1000,
                   <<pending.rawStart, ln>>)
    IN  [st EXCEPT !.pidLastEndTime = MapSet(@, ln.pid, currentEpoch),
                   !.lines = Append(@, line),
                   !.pendingCalls = MapDelete(@, ln.pid),
                   !.syscallCounts = CountCall(@, ln.name, ln.dur)]

\* as OnResumed, with the pending record deleted by a line that is dropped
OnResumedForget(st, ln, idx, currentEpoch) ==
    IF /\ ln.pid \in DOMAIN st.pendingCalls
       /\ st.pendingCalls[ln.pid].syscall = ln.name
       /\ ln.kind = "resumed"
    THEN CompleteResumed(st, ln, idx, currentEpoch)
    ELSE [st EXCEPT !.pendingCalls = MapDelete(@, ln.pid)]

\* as OnResumed, with an event for a rest that does not parse
OnResumedAnyRest(st, ln, idx, currentEpoch) ==
    IF /\ ln.pid \in DOMAIN st.pendingCalls
       /\ st.pendingCalls[ln.pid].syscall = ln.name
    THEN CompleteResumed(st, ln, idx, currentEpoch)
    ELSE st

\* Case A: "<... name resumed> rest"
OnResumed(st, ln, idx, currentEpoch) ==
    IF /\ ln.pid \in DOMAIN st.pendingCalls
       /\ st.pendingCalls[ln.pid].syscall = ln.name
       /\ ln.kind = "resumed"
    THEN CompleteResumed(st, ln, idx, currentEpoch)
    ELSE st

\* as OnUnfinished, with a pending record of the pid kept
OnUnfinishedKeepFirst(st, ln, currentEpoch) ==
    IF ln.pid \in DOMAIN st.pendingCalls THEN st
    ELSE [st EXCEPT !.pendingCalls =
            MapSet(@, ln.pid, [timestampStr |-> ln.ts, startEpoch |-> currentEpoch,
                               syscall |-> ln.name, startArgs |-> ln.args,
                               rawStart |-> ln])]

\* Case B: "name(args <unfinished ...>"
OnUnfinished(st, ln, currentEpoch) ==
    [st EXCEPT !.pendingCalls =
        MapSet(@, ln.pid, [timestampStr |-> ln.ts, startEpoch |-> currentEpoch,
                           syscall |-> ln.name, startArgs |-> ln.args,
                           rawStart |-> ln])]

\* Case C: "name(args) = result <duration>"
OnStandard(st, ln, idx, currentEpoch) ==
    LET prevEnd == GetOr(st.pidLastEndTime, ln.pid, currentEpoch)
        userDiff == Max(0, currentEpoch - prevEnd)
        line == TL(idx, ln.pid, ln.ts, currentEpoch - st.globalStartTime,
                   ln.name, ln.args, ln.result, ln.dur, userDiff \div 1000,
                   <<ln>>)
        endTime == NumPlus(currentEpoch, NumTimes(ln.dur, 1000))
    IN  [st EXCEPT !.pidLastEndTime = MapSet(@, ln.pid, endTime),
                   !.lines = Append(@, line),
                   !.syscallCounts = CountCall(@, ln.name, ln.dur)]

\* as Stamped, with time zero taken from every line
StampedLatest(st, ln, currentEpoch) ==
    [st EXCEPT !.globalStartTime = currentEpoch,
               !.hasSetStartTime = TRUE,
               !.pidLastEndTime = IF ln.pid \in DOMAIN @ THEN @
                                  ELSE MapSet(@, ln.pid, currentEpoch)]

\* the part of the callback every timestamped line runs: time zero and the
\* first sighting of the pid
Stamped(st, ln, currentEpoch) ==
    [st EXCEPT !.globalStartTime = IF st.hasSetStartTime THEN @ ELSE currentEpoch,
               !.hasSetStartTime = TRUE,
               !.pidLastEndTime = IF ln.pid \in DOMAIN @ THEN @
                                  ELSE MapSet(@, ln.pid, currentEpoch)]

\* the forEach callback of parseStrace for line ln at position index
StraceLine(st, ln, idx) ==
    IF ln.kind = "blank" THEN st
    ELSE LET seen == [st EXCEPT !.uniquePids = @ \cup {ln.pid}]
             currentEpoch == parseTimestamp(ln.ts)
             st2 == Stamped(seen, ln, currentEpoch)
         IN  IF ln.kind = "nots" THEN seen
             ELSE IF ln.kind \in {"resumed", "resumedBad"}
                  THEN OnResumed(st2, ln, idx, currentEpoch)
             ELSE IF ln.kind = "unfinished" THEN OnUnfinished(st2, ln, currentEpoch)
             ELSE IF ln.kind = "standard"
                  THEN OnStandard(st2, ln, idx, currentEpoch)
             ELSE st2

\* as InsertSorted, with e put before the elements of equal start
RECURSIVE InsertSortedBeforeEqual(_, _)
InsertSortedBeforeEqual(ls, e) ==
    IF ls = << >> THEN <<e>>
    ELSE IF ls[Len(ls)].timestampEpoch - e.timestampEpoch >= 0
         THEN Append(InsertSortedBeforeEqual(SubSeq(ls, 1, Len(ls) - 1), e),
                     ls[Len(ls)])
         ELSE Append(ls, e)

\* lines.sort((a, b) => a.timestampEpoch - b.timestampEpoch): e put into the
\* sorted list ls behind every element that does not come after it (stable)
RECURSIVE InsertSorted(_, _)
InsertSorted(ls, e) ==
    IF ls = << >> THEN <<e>>
    ELSE IF ls[Len(ls)].timestampEpoch - e.timestampEpoch > 0
         THEN Append(InsertSorted(SubSeq(ls, 1, Len(ls) - 1), e), ls[Len(ls)])
         ELSE Append(ls, e)

RECURSIVE SortByEpoch(_)
SortByEpoch(ls) ==
    IF ls = << >> THEN << >>
    ELSE InsertSorted(SortByEpoch(SubSeq(ls, 1, Len(ls) - 1)), ls[Len(ls)])

\* lines.reduce((acc, l) => acc + l[field], 0)
RECURSIVE SumOf(_, _)
SumOf(ls, field) ==
    IF ls = << >> THEN 0 ELSE NumPlus(ls[1][field], SumOf(Tail(ls), field))

\* Array.from(uniquePids).sort((a, b) => a - b)
RECURSIVE SortedPids(_)
SortedPids(S) ==
    IF S = {} THEN << >>
    ELSE LET x == CHOOSE y \in S : \A z \in S : y <= z
         IN  <<x>> \o SortedPids(S \ {x})

\* the stats of a finished list of events
StatsOf(ls, counts) ==
    [totalLines |-> Len(ls),
     totalWallTime |-> IF Len(ls) > 0
                       THEN NumPlus(ls[Len(ls)].timestampEpoch \div 1000,
                                    ls[Len(ls)].duration)
                       ELSE 0,
     totalSysTime |-> SumOf(ls, "duration"),
     totalUserTime |-> SumOf(ls, "userDiff"),
     syscallCounts |-> counts]

NoStats == StatsOf(<< >>, EmptyMap)

\* the locals as a record
Locals ==
    ParserState(lines, syscallCounts, uniquePids, pidLastEndTime, pendingCalls,
                globalStartTime, hasSetStartTime)

SetLocals(st) ==
    /\ lines' = st.lines
    /\ syscallCounts' = st.syscallCounts
    /\ uniquePids' = st.uniquePids
    /\ pidLastEndTime' = st.pidLastEndTime
    /\ pendingCalls' = st.pendingCalls
    /\ globalStartTime' = st.globalStartTime
    /\ hasSetStartTime' = st.hasSetStartTime

InitParse(md) ==
    /\ mode = md
    /\ index = 0
    /\ rawLines = << >>
    /\ lines = << >>
    /\ syscallCounts = EmptyMap
    /\ uniquePids = {}
    /\ pidLastEndTime = EmptyMap
    /\ pendingCalls = EmptyMap
    /\ globalStartTime = 0
    /\ hasSetStartTime = FALSE
    /\ stats = NoStats
    /\ pids = << >>
    /\ ppc = "loop"

\* the forEach callback of parseStrace runs on the line ln
StraceOn(ln) ==
    /\ mode = "strace"
    /\ ppc = "loop"
    /\ index < MaxLines
    /\ index' = index + 1
    /\ rawLines' = Append(rawLines, ln)
    /\ SetLocals(StraceLine(Locals, ln, index))
    /\ UNCHANGED <<mode, stats, pids, ppc>>
    /\ UNCHANGED <<alignVars, otherVars>>

\* one call of the forEach callback of parseStrace, on any line
StraceStep == \E ln \in StraceLines : StraceOn(ln)

\* after the loop of parseStrace: sort, totals, return
StraceFinish ==
    /\ mode = "strace"
    /\ ppc = "loop"
    /\ lines' = SortByEpoch(lines)
    /\ stats' = StatsOf(lines', syscallCounts)
    /\ pids' = SortedPids(uniquePids)
    /\ ppc' = "done"
    /\ UNCHANGED <<mode, index, rawLines, syscallCounts, uniquePids,
                   pidLastEndTime, pendingCalls, globalStartTime,
                   hasSetStartTime>>
    /\ UNCHANGED <<alignVars, otherVars>>

\* ---------------------------------------------------------- parsePerfTrace

\* parsePerfTimestamp: parseFloat(ts) * 1.0
parsePerfTimestamp(ts) == ts[1] * FP + ts[2]

\* the forEach callback of parsePerfTrace on a line that perfRegex matches
PerfCall(st, ln, idx) ==
    LET currentEpoch == parsePerfTimestamp(ln.ts)
        durationMs == ln.dur
        durationSec == NumOver(durationMs, 1000)
        gst == IF st.hasSetStartTime THEN st.globalStartTime ELSE currentEpoch
        prevEnd == GetOr(st.pidLastEndTime, ln.pid, currentEpoch)
        userDiff == Max(0, currentEpoch - prevEnd)
        line == TL(idx, ln.pid, ln.ts, currentEpoch - gst, ln.name, ln.args,
                   ln.result, durationSec, userDiff \div 1000, <<ln>>)
    IN  [st EXCEPT !.globalStartTime = gst,
                   !.hasSetStartTime = TRUE,
                   !.uniquePids = @ \cup {ln.pid},
                   !.pidLastEndTime = MapSet(@, ln.pid, NumPlus(currentEpoch, durationMs)),
                   !.lines = Append(@, line),
                   !.syscallCounts = CountCall(@, ln.name, durationSec)]

\* the forEach callback of parsePerfTrace for line ln at position index
PerfLine(st, ln, idx) ==
    IF ln.kind = "call" THEN PerfCall(st, ln, idx) ELSE st

\* the forEach callback of parsePerfTrace runs on the line ln
PerfOn(ln) ==
    /\ mode = "perf"
    /\ ppc = "loop"
    /\ index < MaxLines
    /\ index' = index + 1
    /\ rawLines' = Append(rawLines, ln)
    /\ SetLocals(PerfLine(Locals, ln, index))
    /\ UNCHANGED <<mode, stats, pids, ppc>>
    /\ UNCHANGED <<alignVars, otherVars>>

\* one call of the forEach callback of parsePerfTrace, on any line
PerfStep == \E ln \in PerfLines : PerfOn(ln)

\* after the loop of parsePerfTrace: totals, return
PerfFinish ==
    /\ mode = "perf"
    /\ ppc = "loop"
    /\ stats' = StatsOf(lines, syscallCounts)
    /\ pids' = SortedPids(uniquePids)
    /\ ppc' = "done"
    /\ UNCHANGED <<mode, index, rawLines, lines, syscallCounts, uniquePids,
                   pidLastEndTime, pendingCalls, globalStartTime,
                   hasSetStartTime>>
    /\ UNCHANGED <<alignVars, otherVars>>

\* ----------------------------------------------------------------- parseTrace

\* parseTrace runs parsePerfTrace in mode perf and parseStrace otherwise
NextParse == StraceStep \/ StraceFinish \/ PerfStep \/ PerfFinish

InitStrace == InitAlign /\ InitParse("strace") /\ InitOther

Init == InitAlign /\ InitOther /\ \E md \in {"strace", "perf"} : InitParse(md)

SpecAlign == InitStrace /\ [][NextAlign]_vars

SpecParse == Init /\ [][NextParse]_vars

\* ------------------------------------------------- parseTrace, call after call

\* the locals of a parser as its declarations leave them: every table is
\* created inside the call
KeptTables ==
    ParserState(<< >>, EmptyMap, {}, pidLastEndTime, pendingCalls, 0, FALSE)

FreshLocals == ParserState(<< >>, EmptyMap, {}, EmptyMap, EmptyMap, 0, FALSE)

\* the lines of the texts parsed call after call
TwiceStraceLines ==
    {Line("unfinished", 0, <<0, 0, 0, 0>>, t_read, a_start, << >>, 0),
     Line("resumed", 0, LateStamp, t_read, a_extra, <<"4">>, d_half),
     Line("standard", 0, LateStamp, t_read, a_fd, <<"0">>, d_half),
     Line("standard", 7, <<0, 0, 0, 0>>, t_read, a_fd, <<"0">>, d_half),
     Line("standard", 0, <<0, 0, 1, 500000>>, t_read, a_fd, <<"0">>, d_half),
     Line("other", 0, LateStamp, << >>, << >>, << >>, 0)}

TwicePerfLines ==
    {Line("call", 0, <<1000, 0>>, t_read, a_fd, <<"0">>, d_ms),
     Line("call", 7, <<1002, 500000>>, t_openat, a_fd, <<"0">>, d_ms)}

\* the lines of the texts of the calls that have returned
RECURSIVE TextLines(_)
TextLines(calls) ==
    IF calls = << >> THEN 0 ELSE Len(calls[1].text) + TextLines(Tail(calls))

\* the forEach callback of parseStrace, in any call of the behaviour
TwiceStraceStep ==
    /\ TextLines(returned) + index < MaxTotalLines
    /\ \E ln \in TwiceStraceLines : StraceOn(ln)

\* the forEach callback of parsePerfTrace, in any call of the behaviour
TwicePerfStep ==
    /\ TextLines(returned) + index < MaxTotalLines
    /\ \E ln \in TwicePerfLines : PerfOn(ln)

\* the caller keeps the ParsedTrace of the call that has returned and calls
\* parseTrace again, in either mode: the parser runs from its first statement
ParseAgain ==
    /\ ppc = "done"
    /\ Len(returned) < MaxCalls - 1
    /\ returned' = Append(returned, [mode |-> mode, text |-> rawLines,
                                      lines |-> lines, stats |-> stats,
                                      pids |-> pids])
    /\ \E md \in {"strace", "perf"} : mode' = md
    /\ index' = 0
    /\ rawLines' = << >>
    /\ SetLocals(FreshLocals)
    /\ stats' = NoStats
    /\ pids' = << >>
    /\ ppc' = "loop"
    /\ UNCHANGED <<alignVars, levVars, scoreVars, bandVars, appVars>>

NextTwice ==
    TwiceStraceStep \/ StraceFinish \/ TwicePerfStep \/ PerfFinish \/ ParseAgain

SpecTwice == Init /\ [][NextTwice]_vars

\* ---------------------------------------------------- calls of levenshtein

\* the text of n characters c
Rep(c, n) == [k \in 1..n |-> c]

\* the texts levenshtein is called with: short texts, and texts of 40 and of
\* more than 40 characters
LevTexts ==
    {<< >>, <<"a">>, <<"b">>, <<"a", "b">>, <<"b", "a">>, <<"a", "b", "c">>,
     t_read, t_readv, t_openat,
     Rep("a", LevLongLimit), Rep("a", LevLongLimit - 1) \o <<"b">>,
     Rep("a", LevLongLimit + 1), Rep("a", LevLongLimit) \o <<"b">>,
     Rep("a", LevLongLimit + 3)}

\* a call levenshtein(a, b)
LevCall ==
    /\ levPc = "idle"
    /\ \E a, b \in LevTexts :
         /\ levA' = a
         /\ levB' = b
         /\ levOut' = levenshtein(a, b)
    /\ levPc' = "done"
    /\ UNCHANGED <<alignVars, parseVars, returned, scoreVars, bandVars, appVars>>

\* the caller goes on
LevReturn ==
    /\ levPc = "done"
    /\ levPc' = "idle"
    /\ UNCHANGED <<levA, levB, levOut>>
    /\ UNCHANGED <<alignVars, parseVars, returned, scoreVars, bandVars, appVars>>

NextLev == LevCall \/ LevReturn

SpecLev == InitStrace /\ [][NextLev]_vars

\* ------------------------------------------------- calls of calculateScore

t_fstat == <<"f", "s", "t", "a", "t">>

t_newfstatat == <<"n", "e", "w", "f", "s", "t", "a", "t", "a", "t">>

\* "/a/abcd"
a_lib1 == <<Q, "/", "a", "/", "a", "b", "c", "d", Q>>

\* "/a/abc"
a_lib2 == <<Q, "/", "a", "/", "a", "b", "c", Q>>

\* the call names and the argument texts of the scored events; the quotients
\* getArgSimilarity forms over these texts are whole numbers of units too
ScoreNames == {t_read, t_readv, t_openat, t_fstat, t_newfstatat}

ScoreArgTexts == ArgTexts \cup {<< >>, a_lib1, a_lib2}

ScoreEvents ==
    {TL(0, 0, <<0, 0, 0, 0>>, 0, n, x, << >>, 0, 0, << >>) :
        n \in ScoreNames, x \in ScoreArgTexts}

\* a caller scores the pair (a, b) and compares the argument texts both ways
ScoreCall ==
    /\ scorePc = "idle"
    /\ \E a, b \in ScoreEvents :
          /\ scoreA' = a
          /\ scoreB' = b
          /\ scoreOut' = calculateScore(a, b)
          /\ simAB' = getArgSimilarity(a.args, b.args)
          /\ simBA' = getArgSimilarity(b.args, a.args)
    /\ scorePc' = "done"
    /\ UNCHANGED <<alignVars, parseVars, returned, levVars, bandVars, appVars>>

\* the caller has used the results and holds none
ScoreReturn ==
    /\ scorePc = "done"
    /\ scorePc' = "idle"
    /\ scoreA' = << >>
    /\ scoreB' = << >>
    /\ scoreOut' = 0
    /\ simAB' = 0
    /\ simBA' = 0
    /\ UNCHANGED <<alignVars, parseVars, returned, levVars, bandVars, appVars>>

NextScore == ScoreCall \/ ScoreReturn

SpecScore == InitStrace /\ [][NextScore]_vars

\* ------------------------------------------- getScore reads of the fill loops

\* <<n, m>> of the calls whose reads are followed: small tables, which the
\* band covers, and tables wider than the band (K = 200)
BandSizes == {<<2, 2>>, <<3, 1>>, <<201, 201>>, <<101, 201>>}

\* the rows of an n-row table whose cells are followed: the first and the last
BandRows(n) == {r \in 0..n : r <= 2 \/ r >= n - 2}

\* the predecessors cell (ci, cj) reads: Left (:889), Up (:896), Diag (:903)
Predecessors(ci, cj) ==
    {p \in {<<ci, cj - 1>>, <<ci - 1, cj>>, <<ci - 1, cj - 1>>} : p[1] >= 0 /\ p[2] >= 0}

\* the scores table as far as a read of cell p goes: the fill loops store a
\* score for p when they visit it (:880, :924) and for no other cell; the
\* stored value itself plays no part in what is followed here
StoredAt(p, n, m) ==
    IF p[2] \in BandCols(p[1], n, m) THEN (p :> 0) ELSE EmptyMap

\* the inner loop body at cell (ci, cj) of an n x m table reads predecessor p
BandRead ==
    /\ bandPc = "idle"
    /\ \E nm \in BandSizes :
         \E ci \in BandRows(nm[1]) :
           \E cj \in BandCols(ci, nm[1], nm[2]) :
             \E p \in Predecessors(ci, cj) :
               /\ bandN' = nm[1]
               /\ bandM' = nm[2]
               /\ bandI' = ci
               /\ bandJ' = cj
               /\ bandPi' = p[1]
               /\ bandPj' = p[2]
               /\ bandOut' = getScore(p[1], p[2], StoredAt(p, nm[1], nm[2]))
    /\ bandPc' = "done"
    /\ UNCHANGED <<alignVars, parseVars, returned, levVars, scoreVars, appVars>>

\* the value is used and the loop goes on
BandNext ==
    /\ bandPc = "done"
    /\ bandPc' = "idle"
    /\ bandN' = 0
    /\ bandM' = 0
    /\ bandI' = 0
    /\ bandJ' = 0
    /\ bandPi' = 0
    /\ bandPj' = 0
    /\ bandOut' = Fin(0)
    /\ UNCHANGED <<alignVars, parseVars, returned, levVars, scoreVars, appVars>>

NextBand == BandRead \/ BandNext

SpecBand == InitStrace /\ [][NextBand]_vars

\* ----------------------------------------------------------------------- App

\* the contents of the files the user selects; parseTrace gives a ParsedTrace
\* for each, written as the number of the file
AppFiles == {1, 2}

\* alignTraces(a, b), written as the pair it was called with: the rows hold
\* the events of both traces, so the results for different pairs of the
\* (different, non-empty) traces of AppFiles differ
alignResult(a, b) == <<a, b>>

\* FileUpload.handleFileChange: the user selects a file in the input of a
\* slot, which is rendered while a trace is missing; a FileReader starts
SelectFile ==
    /\ traceA = 0 \/ traceB = 0
    /\ started < MaxReads
    /\ \E slot \in {"A", "B"}, f \in AppFiles :
          readers' = readers \cup {[slot |-> slot, file |-> f, serial |-> started]}
    /\ started' = started + 1
    /\ UNCHANGED <<traceA, traceB, diffResult, isProcessing, timers>>
    /\ UNCHANGED <<alignVars, parseVars, returned, levVars, scoreVars, bandVars>>

\* the alignment effect after a render with the traces a and b: with both
\* loaded it sets isProcessing and schedules a timer that closes over them
EffectOn(a, b) ==
    IF a # 0 /\ b # 0
    THEN isProcessing' = TRUE /\ timers' = Append(timers, <<a, b>>)
    ELSE UNCHANGED <<isProcessing, timers>>

\* reader.onload of any read in flight: handleFileA or handleFileB parses the
\* content and sets the trace, then the effect runs
ReaderLoad ==
    /\ \E r \in readers :
          /\ readers' = readers \ {r}
          /\ IF r.slot = "A"
             THEN traceA' = r.file /\ traceB' = traceB /\ EffectOn(r.file, traceB)
             ELSE traceB' = r.file /\ traceA' = traceA /\ EffectOn(traceA, r.file)
    /\ UNCHANGED <<diffResult, started>>
    /\ UNCHANGED <<alignVars, parseVars, returned, levVars, scoreVars, bandVars>>

\* resetAll: the click on the header; the effect finds no traces
ResetAll ==
    /\ traceA' = 0
    /\ traceB' = 0
    /\ diffResult' = << >>
    /\ UNCHANGED <<isProcessing, timers, readers, started>>
    /\ UNCHANGED <<alignVars, parseVars, returned, levVars, scoreVars, bandVars>>

\* the callback of the oldest timer runs with the traces it closed over
TimerFire ==
    /\ timers # << >>
    /\ diffResult' = alignResult(timers[1][1], timers[1][2])
    /\ isProcessing' = FALSE
    /\ timers' = Tail(timers)
    /\ UNCHANGED <<traceA, traceB, readers, started>>
    /\ UNCHANGED <<alignVars, parseVars, returned, levVars, scoreVars, bandVars>>

NextApp == SelectFile \/ ReaderLoad \/ ResetAll \/ TimerFire

SpecApp == InitStrace /\ [][NextApp]_vars

\* ------------------------------------------------ properties of alignTraces

\* the a-side events of rows, in order
RECURSIVE ASide(_)
ASide(rs) ==
    IF rs = << >> THEN << >>
    ELSE (IF Head(rs).type \in {"match", "mismatch", "delete"}
          THEN Head(rs).a ELSE << >>) \o ASide(Tail(rs))

\* the b-side events of rows, in order
RECURSIVE BSide(_)
BSide(rs) ==
    IF rs = << >> THEN << >>
    ELSE (IF Head(rs).type \in {"match", "mismatch", "insert"}
          THEN Head(rs).b ELSE << >>) \o BSide(Tail(rs))

HasRow(type) == \E k \in 1..Len(rows) : rows[k].type = type

\* C1: the a-side events of the returned rows (match, mismatch and delete
\* rows, in order) are exactly A, and the b-side events (match, mismatch and
\* insert rows) are exactly B.
C1_SidesReconstruct ==
    pc = "done" => ASide(rows) = listA /\ BSide(rows) = listB

C1_Witness ==
    /\ pc = "done"
    /\ Len(listA) = 2
    /\ Len(listB) = 2
    /\ HasRow("match")
    /\ HasRow("delete")
    /\ HasRow("insert")

RECURSIVE RowsScore(_)
RowsScore(rs) ==
    IF rs = << >> THEN 0
    ELSE (IF Head(rs).type \in {"match", "mismatch"}
          THEN calculateScore(Head(rs).a[1], Head(rs).b[1])
          ELSE SCORE_GAP * Unit) + RowsScore(Tail(rs))

\* the optimum of the full Needleman-Wunsch table over A and B
NWOptimal(A, B) ==
    LET f[p \in (0..Len(A)) \X (0..Len(B))] ==
            IF p[1] = 0 THEN p[2] * SCORE_GAP * Unit
            ELSE IF p[2] = 0 THEN p[1] * SCORE_GAP * Unit
            ELSE Max(f[<<p[1] - 1, p[2] - 1>>] + calculateScore(A[p[1]], B[p[2]]),
                     Max(f[<<p[1] - 1, p[2]>>], f[<<p[1], p[2] - 1>>])
                     + SCORE_GAP * Unit)
    IN  f[<<Len(A), Len(B)>>]

\* C3: the total score of the returned diff equals the optimal score of the
\* full, unbanded Needleman-Wunsch table (n, m <= 50, n = 0 or m = 0 included).
C3_BandedScoreOptimal ==
    pc = "done" => RowsScore(rows) = NWOptimal(listA, listB)

C3_Witness ==
    /\ pc = "done"
    /\ Len(listA) = 2
    /\ Len(listB) = 1
    /\ HasRow("match")
    /\ HasRow("delete")
    /\ rows[1].type = "match"

\* C4: every iteration of the traceback loop strictly decreases i + j and
\* makes no index negative, forced-recovery moves included, and the loop is
\* left only at (i, j) = (0, 0); i + j is a variant, so the loop terminates.
C4_TracebackTerminates ==
    /\ (pc = "trace" /\ (i > 0 \/ j > 0)) =>
          /\ TraceMove[1] + TraceMove[2] >= 1
          /\ i - TraceMove[1] >= 0
          /\ j - TraceMove[2] >= 0
    /\ pc = "done" => i = 0 /\ j = 0

\* a traceback made of forced-recovery moves only (no direction is recorded)
C4_Witness ==
    /\ pc = "done"
    /\ directions = EmptyMap
    /\ Len(listB) = 2
    /\ Len(rows) = 2

\* ------------------------------------------------- properties of the parsers

\* the position in h of the unfinished line of pid p that no resumed line has
\* completed and no unfinished line of p has replaced; 0 if there is none
RECURSIVE OpenCall(_, _)
OpenCall(h, p) ==
    IF h = << >> THEN 0
    ELSE LET n == Len(h)
             before == OpenCall(SubSeq(h, 1, n - 1), p)
         IN  IF h[n].pid # p THEN before
             ELSE IF h[n].kind = "unfinished" THEN n
             ELSE IF /\ h[n].kind = "resumed"
                     /\ before # 0
                     /\ h[before].name = h[n].name
                  THEN 0
             ELSE before

\* the position in h of the last unfinished line of pid p; 0 if there is none
LastUnfinished(h, p) ==
    SetMax({0} \cup {k \in 1..Len(h) : h[k].kind = "unfinished" /\ h[k].pid = p})

\* the position of the open unfinished line of its pid that line m of h meets
Meets(h, m) == OpenCall(SubSeq(h, 1, m - 1), h[m].pid)

\* line m of h is a resumed line with a parsable rest that meets an open
\* unfinished line of its pid with its call name
Completes(h, m) ==
    /\ h[m].kind = "resumed"
    /\ Meets(h, m) # 0
    /\ h[Meets(h, m)].name = h[m].name

\* line m of h is a resumed line that meets no open unfinished line of its
\* pid, or one of another call name
Orphan(h, m) ==
    /\ h[m].kind \in {"resumed", "resumedBad"}
    /\ (Meets(h, m) = 0 \/ h[Meets(h, m)].name # h[m].name)

\* the positions in the list of events of the events emitted for line m
EventsOf(m) == {x \in 1..Len(lines) : lines[x].id = m - 1}

\* C5: a resumed line of pid p with a parsable rest that follows an open
\* unfinished line of p with the same call name emits exactly one event, with
\* that name, the timestamp text and the relative start of the unfinished line,
\* the duration of the resumed line and both lines as raw text; the pending
\* record of p is gone once the resumed line is processed.
C5_ResumedCompletes ==
    mode = "strace" =>
        \A m \in 1..Len(rawLines) :
            Completes(rawLines, m) =>
                LET r == rawLines[m]
                    u == rawLines[Meets(rawLines, m)]
                IN  /\ Cardinality(EventsOf(m)) = 1
                    /\ \A x \in EventsOf(m) :
                         /\ lines[x].syscall = r.name
                         /\ lines[x].pid = r.pid
                         /\ lines[x].timestamp = u.ts
                         /\ lines[x].timestampEpoch
                              = parseTimestamp(u.ts) - globalStartTime
                         /\ lines[x].duration = r.dur
                         /\ lines[x].raw = <<u, r>>
                    /\ (m = Len(rawLines) => r.pid \notin DOMAIN pendingCalls)

\* unfinished at 00:00:00, a complete call, resumed at 00:00:01: the
\* reconstructed event is sorted to the front
C5_Witness ==
    /\ mode = "strace"
    /\ ppc = "done"
    /\ Len(rawLines) = 3
    /\ rawLines[1].kind = "unfinished"
    /\ rawLines[1].ts # rawLines[3].ts
    /\ rawLines[2].kind = "standard"
    /\ rawLines[2].ts = rawLines[3].ts
    /\ Completes(rawLines, 3)
    /\ Len(lines) = 2
    /\ lines[1].raw = <<rawLines[1], rawLines[3]>>
    /\ pendingCalls = EmptyMap

\* C6 as stated: the argument text of an event reconstructed from an
\* unfinished and a resumed line is exactly the stored partial text followed
\* by the fragment of the resumed line, white space and empty fragments
\* included.
C6_ArgsExactConcat ==
    mode = "strace" =>
        \A m \in 1..Len(rawLines) :
            Completes(rawLines, m) =>
                \A x \in EventsOf(m) :
                    lines[x].args
                      = rawLines[Meets(rawLines, m)].args \o rawLines[m].args

\* t is full without the white space full begins and ends with
Stripped(t, full) ==
    \E a, b \in 0..Len(full) :
        /\ a + b <= Len(full)
        /\ t = SubSeq(full, a + 1, Len(full) - b)
        /\ \A k \in 1..a : IsSpace(full[k])
        /\ \A k \in (Len(full) - b + 1)..Len(full) : IsSpace(full[k])
        /\ (t = << >> \/ (~IsSpace(t[1]) /\ ~IsSpace(t[Len(t)])))

\* C6, amended: the argument text of a reconstructed event is the stored
\* partial text followed by the fragment of the resumed line, without the
\* white space this concatenation begins and ends with; it is the exact
\* concatenation when that neither begins nor ends with white space.
C6_ArgsStrippedConcat ==
    mode = "strace" =>
        \A m \in 1..Len(rawLines) :
            Completes(rawLines, m) =>
                LET full == rawLines[Meets(rawLines, m)].args \o rawLines[m].args
                IN  \A x \in EventsOf(m) :
                        /\ Stripped(lines[x].args, full)
                        /\ (full = << >> \/ IsSpace(full[1]) \/ IsSpace(full[Len(full)])
                              \/ lines[x].args = full)

\* "name( <unfinished ...>" completed by "<... name resumed> 9) = ...": the
\* event has the argument text "9", the concatenation is " 9"
C6_Witness ==
    /\ mode = "strace"
    /\ Len(rawLines) = 2
    /\ Completes(rawLines, 2)
    /\ rawLines[1].args = a_none
    /\ rawLines[2].args = a_extra
    /\ Len(lines) = 1
    /\ lines[1].args = <<"9">>

\* C7: a resumed line of pid p that meets no pending record of p, or one of
\* another call name, leaves the list of events and the pending records as
\* they are.
C7_OrphanResumedDropped ==
    [][(mode = "strace" /\ Len(rawLines') = Len(rawLines) + 1
          /\ Orphan(rawLines', Len(rawLines')))
        => (lines' = lines /\ pendingCalls' = pendingCalls)]_vars

\* unfinished read, resumed openat (dropped), resumed read: the pending read
\* stayed and is completed by the third line
C7_Witness ==
    /\ mode = "strace"
    /\ Len(rawLines) = 3
    /\ rawLines[1].kind = "unfinished"
    /\ Orphan(rawLines, 2)
    /\ rawLines[2].pid = rawLines[1].pid
    /\ rawLines[2].name # rawLines[1].name
    /\ Completes(rawLines, 3)
    /\ Len(lines) = 1
    /\ lines[1].raw = <<rawLines[1], rawLines[3]>>

\* the pending record the unfinished line u leaves
PendingOf(u) ==
    [timestampStr |-> u.ts, startEpoch |-> parseTimestamp(u.ts),
     syscall |-> u.name, startArgs |-> u.args, rawStart |-> u]

\* C8: pendingCalls holds one record for each pid with an open unfinished
\* line and none for the others, that record is the one of the last unfinished
\* line of the pid, and every reconstructed event starts from the last
\* unfinished line its pid had when the resumed line came.
C8_OnePendingPerPid ==
    mode = "strace" =>
        /\ DOMAIN pendingCalls \subseteq Pids
        /\ \A p \in Pids :
             IF OpenCall(rawLines, p) = 0 THEN p \notin DOMAIN pendingCalls
             ELSE /\ p \in DOMAIN pendingCalls
                  /\ pendingCalls[p] = PendingOf(rawLines[LastUnfinished(rawLines, p)])
        /\ \A x \in 1..Len(lines) :
             Len(lines[x].raw) = 2 =>
                 lines[x].raw[1]
                   = rawLines[LastUnfinished(SubSeq(rawLines, 1, lines[x].id),
                                             lines[x].pid)]

\* two different unfinished lines of one pid, then a resumed line: the one
\* event starts from the second unfinished line
C8_Witness ==
    /\ mode = "strace"
    /\ Len(rawLines) = 3
    /\ rawLines[1].kind = "unfinished"
    /\ rawLines[2].kind = "unfinished"
    /\ rawLines[1].pid = rawLines[2].pid
    /\ rawLines[1].name = rawLines[2].name
    /\ rawLines[1] # rawLines[2]
    /\ Completes(rawLines, 3)
    /\ Len(lines) = 1
    /\ lines[1].raw = <<rawLines[2], rawLines[3]>>
    /\ lines[1].timestamp = rawLines[2].ts

\* the number of lines of h that are complete calls or complete a pending call
Counted(h) ==
    Cardinality({m \in 1..Len(h) :
                    h[m].kind \in {"standard", "call"} \/ Completes(h, m)})

\* C9: the callback of either parser runs to its end on every line, the loop
\* goes on to the next line, and the number of events is the number of
\* complete lines plus the number of resumed lines that completed a pending
\* call; the returned totalLines is that number.
C9_EveryLineCounted ==
    /\ index = Len(rawLines)
    /\ Len(lines) = Counted(rawLines)
    /\ (ppc = "done" => stats.totalLines = Counted(rawLines))
    /\ (ppc = "loop" /\ index < MaxLines) =>
          /\ mode = "strace" => \A ln \in StraceLines : ENABLED StraceOn(ln)
          /\ mode = "perf" => \A ln \in PerfLines : ENABLED PerfOn(ln)

\* an unfinished line, a malformed resumed line and a complete line: one event
C9_Witness ==
    /\ mode = "strace"
    /\ ppc = "done"
    /\ Len(rawLines) = 3
    /\ rawLines[1].kind = "unfinished"
    /\ rawLines[2].kind = "resumedBad"
    /\ rawLines[2].pid = rawLines[1].pid
    /\ rawLines[3].kind = "standard"
    /\ Len(lines) = 1
    /\ stats.totalLines = 1

\* C10 as stated: in the returned list the events of one pid are in
\* non-decreasing order of relative start, in either parser.
C10_PerPidOrdered ==
    ppc = "done" =>
        \A x, y \in 1..Len(lines) :
            (x < y /\ lines[x].pid = lines[y].pid)
                => lines[x].timestampEpoch <= lines[y].timestampEpoch

\* x is a number that is not negative
NonNegative(x) == x # NaN /\ x >= 0

\* C11 as stated: every returned event of either parser has duration >= 0
\* and userDiff >= 0.
C11_NonNegative ==
    ppc = "done" =>
        \A x \in 1..Len(lines) :
            NonNegative(lines[x].duration) /\ NonNegative(lines[x].userDiff)

\* the line the step consumes, and the event it appends
StepLine == rawLines'[Len(rawLines')]

StepEvent == lines'[Len(lines')]

\* a step of the strace loop on a line of the given kind
StraceStepOn(kind) ==
    /\ mode = "strace"
    /\ Len(rawLines') = Len(rawLines) + 1
    /\ StepLine.kind = kind

\* lastEnd[p] as held before the step; the own start thisStart on first sighting
HeldLastEnd(p, thisStart) ==
    IF p \in DOMAIN pidLastEndTime THEN pidLastEndTime[p] ELSE thisStart

\* max(0, start - lastEnd), in seconds
IdleGap(start, lastEnd) ==
    IF lastEnd = NaN THEN NaN ELSE Max(0, start - lastEnd) \div 1000

\* C12 as stated: a standard line of pid p emits an event whose idle gap is
\* max(0, thisStart - lastEnd[p]) in seconds, lastEnd[p] as held just before
\* the line (0 ms included), and leaves lastEnd[p] = thisStart + duration.
C12_StandardIdleGap ==
    [][StraceStepOn("standard") =>
        LET thisStart == parseTimestamp(StepLine.ts)
        IN  /\ StepEvent.userDiff
                 = IdleGap(thisStart, HeldLastEnd(StepLine.pid, thisStart))
            /\ pidLastEndTime'[StepLine.pid]
                 = NumPlus(thisStart, NumTimes(StepLine.dur, 1000))]_vars

\* C18 as stated: a resumed line that completes a call of pid p emits an
\* event whose idle gap is max(0, pendingStart - lastEnd[p]) in seconds, and
\* leaves lastEnd[p] = the time of the resumed line.
C18_ResumedIdleGap ==
    [][(StraceStepOn("resumed") /\ Completes(rawLines', Len(rawLines'))) =>
        LET u == rawLines[Meets(rawLines', Len(rawLines'))]
            pendingStart == parseTimestamp(u.ts)
        IN  /\ StepEvent.userDiff
                 = IdleGap(pendingStart, HeldLastEnd(StepLine.pid, pendingStart))
            /\ pidLastEndTime'[StepLine.pid] = parseTimestamp(StepLine.ts)]_vars

\* the positions of the lines of h that carry a timestamp
StampedLines(h) == {k \in 1..Len(h) : h[k].kind \notin {"blank", "nots"}}

\* the first timestamp value of h, in milliseconds since midnight
TimeZero(h) ==
    LET first == CHOOSE k \in StampedLines(h) : \A q \in StampedLines(h) : k <= q
    IN  parseTimestamp(h[first].ts)

\* the line whose timestamp is the start of the event emitted for line m of h
StartLine(h, m) == IF h[m].kind = "resumed" THEN h[Meets(h, m)] ELSE h[m]

\* C20: time zero is the first timestamp of the text, whatever line carries
\* it, and the relative start of every event is the milliseconds since
\* midnight of its line (of its unfinished line for a resumed call) minus
\* time zero.
C20_RelativeToFirstStamp ==
    mode = "strace" =>
        /\ hasSetStartTime = (StampedLines(rawLines) # {})
        /\ hasSetStartTime => globalStartTime = TimeZero(rawLines)
        /\ \A m \in 1..Len(rawLines) :
             \A x \in EventsOf(m) :
                 lines[x].timestampEpoch
                   = parseTimestamp(StartLine(rawLines, m).ts) - TimeZero(rawLines)

\* time zero from a line of no call grammar at 00:00:01, then a call that
\* started at 00:00:00: its relative start is -1000 ms
C20_Witness ==
    /\ mode = "strace"
    /\ ppc = "done"
    /\ Len(rawLines) = 3
    /\ rawLines[1].kind = "other"
    /\ rawLines[2].kind = "unfinished"
    /\ Completes(rawLines, 3)
    /\ Len(lines) = 1
    /\ lines[1].timestampEpoch = 0 - 1000 * FP

\* C19: the returned events of parseStrace are in non-decreasing order of
\* relative start, all pids together, and events of equal start are in the
\* order they were emitted in (the order of their ids).
C19_SortedStable ==
    (mode = "strace" /\ ppc = "done") =>
        \A x, y \in 1..Len(lines) :
            x < y =>
                \/ lines[x].timestampEpoch < lines[y].timestampEpoch
                \/ /\ lines[x].timestampEpoch = lines[y].timestampEpoch
                   /\ lines[x].id < lines[y].id

\* a call resumed by the third line and started before the call of the
\* second line: the reconstructed event comes first
C19_Witness ==
    /\ mode = "strace"
    /\ ppc = "done"
    /\ Len(rawLines) = 3
    /\ rawLines[2].kind = "standard"
    /\ Completes(rawLines, 3)
    /\ Len(lines) = 2
    /\ lines[1].id = 2
    /\ lines[2].id = 1
    /\ lines[1].timestampEpoch < lines[2].timestampEpoch

\* the sum of the field of the records of ls at the positions S
RECURSIVE FieldSum(_, _, _)
FieldSum(ls, S, field) ==
    IF S = {} THEN 0
    ELSE LET k == CHOOSE q \in S : TRUE
         IN  NumPlus(FieldSum(ls, S \ {k}, field), ls[k][field])

\* the positions of the events of ls with the call name
Named(ls, name) == {k \in 1..Len(ls) : ls[k].syscall = name}

\* C15: the returned stats aggregate the returned events: totalLines is their
\* number, totalSysTime the sum of their durations, totalUserTime the sum of
\* their idle gaps, syscallCounts has the count and the summed duration of
\* the events of every call name and no other name, totalWallTime is the last
\* event's relative start in seconds plus its duration; without events all
\* totals are 0 and the table is empty.
C15_StatsAggregate ==
    ppc = "done" =>
        /\ stats.totalLines = Len(lines)
        /\ stats.totalSysTime = FieldSum(lines, 1..Len(lines), "duration")
        /\ stats.totalUserTime = FieldSum(lines, 1..Len(lines), "userDiff")
        /\ DOMAIN stats.syscallCounts = {lines[k].syscall : k \in 1..Len(lines)}
        /\ \A name \in DOMAIN stats.syscallCounts :
             /\ stats.syscallCounts[name].count = Cardinality(Named(lines, name))
             /\ stats.syscallCounts[name].totalDuration
                  = FieldSum(lines, Named(lines, name), "duration")
        /\ FieldSum(stats.syscallCounts, DOMAIN stats.syscallCounts, "count")
             = stats.totalLines
        /\ stats.totalWallTime
             = IF lines = << >> THEN 0
               ELSE NumPlus(lines[Len(lines)].timestampEpoch \div 1000,
                            lines[Len(lines)].duration)
        /\ lines = << >> =>
             /\ stats.totalSysTime = 0
             /\ stats.totalUserTime = 0
             /\ stats.syscallCounts = EmptyMap

\* two calls of one name and a positive idle gap in the totals
C15_Witness ==
    /\ ppc = "done"
    /\ Len(lines) = 2
    /\ lines[1].syscall = lines[2].syscall
    /\ stats.syscallCounts[lines[1].syscall].count = 2
    /\ stats.totalUserTime > 0
    /\ stats.totalSysTime > 0

\* the positions of the lines of h that perfRegex matches
CallLines(h) == {k \in 1..Len(h) : h[k].kind = "call"}

\* the seconds value of the first matched line of h
FirstSeconds(h) ==
    LET first == CHOOSE k \in CallLines(h) : \A q \in CallLines(h) : k <= q
    IN  parsePerfTimestamp(h[first].ts)

\* v milliseconds are s seconds: v = s * 1000
MillisOf(v, s) == v % 1000 = 0 /\ v \div 1000 = s

\* C13 as stated: the relative start of every event of parsePerfTrace, in
\* milliseconds, is the seconds value of its line times 1000 minus the seconds
\* value of the first matched line times 1000.
C13_PerfRelativeMillis ==
    mode = "perf" =>
        \A m \in 1..Len(rawLines) :
            \A x \in EventsOf(m) :
                MillisOf(lines[x].timestampEpoch,
                         parsePerfTimestamp(rawLines[m].ts) - FirstSeconds(rawLines))

\* ------------------------------------------ properties of the row emission

\* the row the claim gives a traceback step over di events of A and dj of B
\* from cell (ci, cj)
StepRow(di, dj, ci, cj) ==
    LET a == listA[ci]
        b == listB[cj]
    IN  IF di = 1 /\ dj = 1
        THEN IF calculateScore(a, b) > 0
             THEN [type |-> "match", a |-> Some(a), b |-> Some(b),
                   timeDiff |-> Some(a.duration - b.duration),
                   userDiffDelta |-> Some(a.userDiff - b.userDiff)]
             ELSE [type |-> "mismatch", a |-> Some(a), b |-> Some(b),
                   timeDiff |-> None, userDiffDelta |-> None]
        ELSE IF di = 1
        THEN [type |-> "delete", a |-> Some(a), b |-> None,
              timeDiff |-> None, userDiffDelta |-> None]
        ELSE [type |-> "insert", a |-> None, b |-> Some(b),
              timeDiff |-> None, userDiffDelta |-> None]

\* C17: every traceback step puts one row in front of the rows: a diagonal
\* step a match row with timeDiff = a.duration - b.duration and
\* userDiffDelta = a.userDiff - b.userDiff when calculateScore(a, b) > 0 and a
\* mismatch row otherwise, a vertical step a delete row with only a, a
\* horizontal step an insert row with only b; two traces of one event each
\* with the same call name and arguments give exactly one match row.
C17_RowPerStep ==
    /\ [][(pc = "trace" /\ <<i, j>> # <<i', j'>>) =>
            /\ i - i' \in 0..1
            /\ j - j' \in 0..1
            /\ rows' = <<StepRow(i - i', j - j', i, j)>> \o rows]_vars
    /\ [](( /\ pc = "done"
            /\ Len(listA) = 1
            /\ Len(listB) = 1
            /\ listA[1].syscall = listB[1].syscall
            /\ listA[1].args = listB[1].args)
          => (Len(rows) = 1 /\ rows[1].type = "match"))

\* read(3) of 10 against read(3, 9) of 20, idle gaps 0 and 5: one match row
\* with timeDiff -10 and userDiffDelta -5
C17_Witness ==
    /\ pc = "done"
    /\ listA = <<ev_read>>
    /\ listB = <<ev_read2>>
    /\ rows = <<Row("match", Some(ev_read), Some(ev_read2), Some(0 - 10), Some(0 - 5))>>

\* ------------------------------------------------- properties of levenshtein

\* C16: levenshtein(x, y) = levenshtein(y, x); levenshtein(x, x) = 0; and the
\* result is 0 only when x = y. Checked on every pair of LevTexts, which has
\* texts of 40 characters (the full distance is computed) and of 41 and more
\* (the result is the length difference plus 5).
C16_LevSymmetric ==
    levPc = "done" =>
        /\ levOut = levenshtein(levB, levA)
        /\ (levA = levB => levOut = 0)
        /\ (levOut = 0 => levA = levB)

\* a call with a 41-character text and a different 40-character one: the long
\* branch, 1 + 5
C16_Witness ==
    /\ levPc = "done"
    /\ Len(levA) = LevLongLimit + 1
    /\ Len(levB) = LevLongLimit
    /\ levOut = 1 + LevLongPenalty

\* ------------------------------------------- properties of repeated parsing

\* C14: a call of parseTrace that returns has the result of every earlier call
\* on the same text in the same mode, whatever was parsed in between: the same
\* events in the same order, the same stats, the same pids.
C14_SameTextSameResult ==
    ppc = "done" =>
        \A k \in 1..Len(returned) :
            (returned[k].mode = mode /\ returned[k].text = rawLines) =>
                /\ returned[k].lines = lines
                /\ returned[k].stats = stats
                /\ returned[k].pids = pids

\* the third call parses the text of the first, which gave an event; the call
\* in between parsed another text that gave one too
C14_Witness ==
    /\ ppc = "done"
    /\ Len(returned) = 2
    /\ returned[1].mode = mode
    /\ returned[1].text = rawLines
    /\ returned[2].text # rawLines
    /\ Len(returned[2].lines) = 1
    /\ Len(lines) = 1

\* ------------------------------------------- properties of parsePerfTrace

\* the position in h of the last matched line of the pid of line m before
\* line m; 0 if there is none
PrevCall(h, m) ==
    SetMax({0} \cup {k \in 1..(m - 1) : h[k].kind = "call" /\ h[k].pid = h[m].pid})

\* the end of matched line q of h, in seconds: its start plus its duration
PerfEndSeconds(h, q) == NumPlus(parsePerfTimestamp(h[q].ts), NumOver(h[q].dur, 1000))

\* C21 as stated: the idle gap of a perf event of pid p is
\* max(0, thisStart - lastEnd[p]), where lastEnd[p] is the start of the
\* previous event of p plus its duration, both in one time unit (seconds
\* here, as the gap is stored); the first event of a pid has idle gap 0.
\* Previous events whose duration is no number are left out.
C21_PerfIdleGap ==
    mode = "perf" =>
        \A m \in CallLines(rawLines) :
            \A x \in EventsOf(m) :
                LET q == PrevCall(rawLines, m)
                IN  IF q = 0 THEN lines[x].userDiff = 0
                    ELSE PerfEndSeconds(rawLines, q) # NaN =>
                             lines[x].userDiff
                               = Max(0, parsePerfTimestamp(rawLines[m].ts)
                                          - PerfEndSeconds(rawLines, q))

\* ------------------------------------------------ properties of the pair score

\* the names are approximately equal: edit distance <= 3, or one holds the other
ApproxNames(x, y) ==
    levenshtein(x, y) <= 3 \/ Includes(x, y) \/ Includes(y, x)

\* C22: the score is 10 + 5 x argSimilarity for identical names, else
\* 6 + 2.5 x argSimilarity for approximately equal names, else exactly -10;
\* so it lies in [10, 15], in [6, 8.5] or is -10, and it is > 0 exactly when
\* the names are identical or approximately equal.
C22_ScoreByName ==
    scorePc = "done" =>
        LET same == scoreA.syscall = scoreB.syscall
            near == ~same /\ ApproxNames(scoreA.syscall, scoreB.syscall)
        IN  /\ simAB >= 0 /\ simAB <= Unit
            /\ same => 2 * scoreOut = 20 * Unit + 10 * simAB
            /\ near => 2 * scoreOut = 12 * Unit + 5 * simAB
            /\ (~same /\ ~near) => scoreOut = 0 - 10 * Unit
            /\ same => (scoreOut >= 10 * Unit /\ scoreOut <= 15 * Unit)
            /\ near => (2 * scoreOut >= 12 * Unit /\ 2 * scoreOut <= 17 * Unit)
            /\ (scoreOut > 0) = (same \/ near)

\* fstat against newfstatat with equal arguments: the distance is 5, one name
\* holds the other, the score is 6 + 2.5
C22_Witness ==
    /\ scorePc = "done"
    /\ scoreA.syscall = t_fstat
    /\ scoreB.syscall = t_newfstatat
    /\ levenshtein(t_fstat, t_newfstatat) > 3
    /\ scoreA.args = scoreB.args
    /\ 2 * scoreOut = 17 * Unit

\* C27 as stated: calculateScore(a, b) = calculateScore(b, a) and
\* getArgSimilarity(x, y) = getArgSimilarity(y, x), path-like arguments whose
\* basenames are 3 and 4 characters long and one edit apart included.
C27_ScoreSymmetric ==
    scorePc = "done" =>
        /\ simAB = simBA
        /\ scoreOut = calculateScore(scoreB, scoreA)

\* --------------------------------------------------- properties of the DP fill

\* the three candidates of cell (ci, cj), from the scores of its predecessors
CandLeft(ci, cj) ==
    IF cj > 0 THEN Plus(getScore(ci, cj - 1, scores), SCORE_GAP * Unit) ELSE NegInf

CandUp(ci, cj) ==
    IF ci > 0 THEN Plus(getScore(ci - 1, cj, scores), SCORE_GAP * Unit) ELSE NegInf

CandDiag(ci, cj) ==
    IF ci > 0 /\ cj > 0
    THEN Plus(getScore(ci - 1, cj - 1, scores), calculateScore(listA[ci], listB[cj]))
    ELSE NegInf

\* C23: for every cell filled so far (its predecessors were filled before it
\* and are never written again), the direction is diagonal whenever the
\* diagonal candidate is finite and >= both gap candidates; otherwise it is Up
\* only if Up > Left, and Left on a tie of the two; the score is the maximum of
\* the three candidates.
C23_TieBreak ==
    \A c \in DOMAIN directions :
        LET L == CandLeft(c[1], c[2])
            U == CandUp(c[1], c[2])
            D == CandDiag(c[1], c[2])
            diag == ~D.inf /\ Ge(D, L) /\ Ge(D, U)
        IN  /\ diag => directions[c] = DIR_DIAG
            /\ ~diag => directions[c] = (IF Gt(U, L) THEN DIR_UP ELSE DIR_LEFT)
            /\ c \in DOMAIN scores
            /\ Ge(Fin(scores[c]), L) /\ Ge(Fin(scores[c]), U) /\ Ge(Fin(scores[c]), D)
            /\ Fin(scores[c]) \in {L, U, D}

\* a cell whose diagonal candidate ties with a gap candidate and is taken, and
\* a cell whose two gap candidates tie above the diagonal and record Left
C23_Witness ==
    /\ pc = "trace"
    /\ \E c \in DOMAIN directions :
          /\ directions[c] = DIR_DIAG
          /\ CandDiag(c[1], c[2]) \in {CandLeft(c[1], c[2]), CandUp(c[1], c[2])}
    /\ \E c \in DOMAIN directions :
          /\ directions[c] = DIR_LEFT
          /\ ~CandUp(c[1], c[2]).inf
          /\ CandUp(c[1], c[2]) = CandLeft(c[1], c[2])

\* ------------------------------------------------- properties of the traceback

\* C25: no row of alignTraces is a mismatch: every row emitted so far, and so
\* every returned row, is a match, an insert or a delete.
C25_NoMismatchRow ==
    \A k \in 1..Len(rows) : rows[k].type \in {"match", "insert", "delete"}

\* two events whose pair score is -10 are aligned as a delete and an insert
C25_Witness ==
    /\ pc = "done"
    /\ Len(listA) = 1
    /\ Len(listB) = 1
    /\ calculateScore(listA[1], listB[1]) = SCORE_MISMATCH * Unit
    /\ Len(rows) = 2
    /\ {rows[1].type, rows[2].type} = {"insert", "delete"}

\* C26: a cell the traceback stands on without a recorded direction has an
\* index 0, so the forced step is a gap step and never the forced diagonal;
\* once the fill is over every cell of the band other than (0, 0) has a score
\* and a direction.
C26_ForcedStepIsGap ==
    pc \in {"trace", "done"} =>
        /\ (pc = "trace" /\ (i > 0 \/ j > 0) /\ <<i, j>> \notin DOMAIN directions)
              => (i = 0 \/ j = 0)
        /\ \A ci \in 0..Len(listA) :
             \A cj \in BandCols(ci, Len(listA), Len(listB)) :
                 (ci > 0 \/ cj > 0) =>
                     /\ <<ci, cj>> \in DOMAIN directions
                     /\ <<ci, cj>> \in DOMAIN scores

\* the traceback of an empty A against two events stands on (0, 1), which
\* the fill never visited, after one forced insert
C26_Witness ==
    /\ pc = "trace"
    /\ Len(listA) = 0
    /\ Len(listB) = 2
    /\ i = 0
    /\ j = 1
    /\ <<i, j>> \notin DOMAIN directions
    /\ Len(rows) = 1
    /\ rows[1].type = "insert"

\* ---------------------------------------------------- properties of the band

\* C24 as stated, for the reads: a predecessor outside the band of its row is
\* read as minus infinity, cells of row 0 and of column 0 included.
C24_OutOfBandUnreachable ==
    bandPc = "done" =>
        (bandPj \notin BandCols(bandPi, bandN, bandM) => bandOut = NegInf)

\* ------------------------------------------------ properties of the pid list

\* C29 as stated: the returned pids are in ascending order without duplicates
\* and are exactly the pids of the returned events.
C29_PidsOfEvents ==
    ppc = "done" =>
        /\ \A x, y \in 1..Len(pids) : x < y => pids[x] < pids[y]
        /\ {pids[x] : x \in 1..Len(pids)} = {lines[x].pid : x \in 1..Len(lines)}

\* ------------------------------------------ properties of the first idle gap

\* C28 as stated: in parseStrace the first event emitted for a pid (the one of
\* the smallest id, the position of the emitting line) has idle gap 0,
\* whatever lines of the pid came before it.
C28_FirstEventGapZero ==
    mode = "strace" =>
        \A x \in 1..Len(lines) :
            (\A y \in 1..Len(lines) :
                 lines[y].pid = lines[x].pid => lines[x].id <= lines[y].id)
              => lines[x].userDiff = 0

\* ---------------------------------------------------------- properties of App

\* C30 as stated: whenever both traces are loaded and isProcessing is false,
\* diffResult is alignTraces(traceA, traceB) of the traces held.
C30_ViewerShowsHeldPair ==
    (traceA # 0 /\ traceB # 0 /\ ~isProcessing) =>
        diffResult = alignResult(traceA, traceB)

====
